---- MODULE Spec2Model ----
(***************************************************************************)
(* The ingestion pipeline of src/server.js (the first revision in the      *)
(* file, lines 1-220): fetchAuctionsWithRetry, cleanupExpiredAuctions,     *)
(* scheduleFetch and the app.listen callback, over the two MongoDB         *)
(* collections 'historicalauctions' (hist) and 'auctions' (view).          *)
(*                                                                         *)
(* A step of the model is what runs between two awaits of the code: one    *)
(* HTTP response, or one store operation (exists, save, deleteMany, drop,  *)
(* insertMany).  The calls of fetchAuctionsWithRetry are the processes: a    *)
(* call occupies one of the slots of Calls from its first line to its      *)
(* return or throw, and the slot is reused by a later call.                *)
(***************************************************************************)
EXTENDS Integers, Sequences, FiniteSets, TLC

\* ------------------------------------------------------------- bounds
MaxTime == 1       \* the clock (Date.now()) runs over 0..MaxTime
MaxBatch == 3      \* most listings one attempt retrieves
MaxPages == 6      \* largest totalPages the feed announces
MaxAttempt == 6    \* largest attempt number whose wait is computed
retries == 2       \* the retries parameter (default 5 in the code), kept small

\* ------------------------------------------------------------- program constants
apiBatchSize == 5      \* pages per group
mongoBatchSize == 2    \* records per insertMany chunk: 1000 in the code, scaled
                       \* down so that a batch of MaxBatch spans two chunks
delay == 30000         \* the delay parameter's default, in ms
rateLimitBase == 60000 \* ms per attempt after HTTP 429
rateLimitCap == 300000 \* cap of the 429 wait, ms
searchLimit == 2       \* .limit(): 100 in the code, scaled down so that a view of
                       \* MaxBatch documents has more matches than one response holds

\* ------------------------------------------------------------- data
Calls == {1, 2}

\* Upstream listings, reduced to the fields the pipeline and the search read: the
\* listing identifier, its end time, its price, its name (a sequence of
\* characters), tier and bin flag, and its seller. lb has ended when the clock starts, la ends
\* after the clock's last value, and la2 is la as the feed serves it at another
\* time, with another end and price.
la == [uuid |-> "a", end |-> MaxTime + 1, starting_bid |-> 10,
       item_name |-> <<"A", "b">>, tier |-> "RARE", bin |-> TRUE,
       auctioneer |-> "s1"]
lb == [uuid |-> "b", end |-> 0, starting_bid |-> 5,
       item_name |-> <<"c", "a">>, tier |-> "EPIC", bin |-> FALSE,
       auctioneer |-> "s2"]
la2 == [uuid |-> "a", end |-> 1, starting_bid |-> 7,
        item_name |-> <<"A", "b">>, tier |-> "RARE", bin |-> TRUE,
        auctioneer |-> "s1"]
Listings == {la, lb, la2}

SeqsUpTo(S, n) == UNION {[1..k -> S] : k \in 0..n}

\* The ways a request to the feed fails: HTTP 429, a timeout, success=false.
FetchErrors == {"429", "ECONNABORTED", "api"}
Errors == FetchErrors \cup {"store"}

\* What the feed does in each specification: the totalPages it announces, the
\* content of a page, the failures of a request.
MainTotalPages == 0..1
MainContents == SeqsUpTo(Listings, MaxBatch)
MainErrors == {"429"}
PagedTotalPages == 0..MaxPages
PagedContents == SeqsUpTo({lb}, 1)
PagedErrors == FetchErrors
OverlapTotalPages == {1}
OverlapListings == {la, lb}
OverlapContents == SeqsUpTo(OverlapListings, 1)
OverlapErrors == {"429"}
RaceTotalPages == {1}
RaceContents == {<<la>>, <<la2>>}
RaceErrors == {"429"}
OnceTotalPages == {1}
OnceContents == {<<lb>>}
OnceErrors == {"429"}
SearchTotalPages == {1}
SearchContents == {<<>>, <<lb>>, <<la, lb, la2>>}
SearchErrors == {"429"}

\* The query strings of GET /auctions/search; "" stands for a parameter that is
\* absent. item is a sequence of characters.
Items == {<<>>, <<"a">>, <<"a", ".">>, <<"(">>}
Rarities == {"", "rare"}
Bins == {"", "true", "false"}
Skips == {"", "1", "2"}
Requests == [item : Items, rarity : Rarities, bin : Bins, skip : Skips]
NoRequest == [item |-> <<>>, rarity |-> "", bin |-> "", skip |-> "none"]
NoResponse == [status |-> 0, body |-> <<>>]
NoBackoff == [error |-> "none", attempt |-> 0, waited |-> 0]

VARIABLES
  now,            \* Date.now()
  hist,           \* the historicalauctions collection: a set of documents
  view,           \* the auctions collection: how many documents equal each listing
  viewExists,     \* whether the auctions collection exists
  fetchScheduled, \* line 165
  listening,      \* whether the app.listen callback has run
  pc,             \* per call: where it stands
  caller,         \* per call: "listen" (line 217) or "cron" (line 170)
  attempt,        \* per call: the loop variable of line 59
  lastErr,        \* per call: the error the previous attempt ended with
  outstanding,    \* per call: page requests issued and not yet answered
  pagesGot,       \* per call: the data of the answered pages, by page
  batch,          \* per call: allAuctions, as last assigned in this slot (line 82)
  idx,            \* per call: position in allAuctions (dedup loop, chunk loop)
  newAuctionsCount, \* per call: line 85
  run,            \* history, per call in its dedup loop: "first" or "again" while no
                  \* one else changed hist since the loop began ("again": it began when
                  \* a loop over the same batch had settled), "none" otherwise
  settled,        \* history, per call: its last dedup loop ran to its end with no one
                  \* else changing hist, and hist has not changed since
  cleaned,        \* history: the last step was a cleanupExpiredAuctions that completed
                  \* without a store error
  request,        \* req.query of the last GET /auctions/search
  response,       \* what the handler answered: the status and the array of res.json
  backoff         \* per call: an attempt number, the error the attempt threw and
                  \* the time the catch block then waits before the next attempt

vars == <<now, hist, view, viewExists, fetchScheduled, listening, pc, caller, attempt, lastErr,
          outstanding, pagesGot, batch, idx, newAuctionsCount, run, settled, cleaned,
          request, response, backoff>>

store == <<hist, view, viewExists>>
fetchVars == <<outstanding, pagesGot, batch, idx, newAuctionsCount>>
served == <<request, response, backoff>>

\* ------------------------------------------------------------- helpers
RECURSIVE Flat(_)
\* Array.prototype.flat over the pages' arrays, in page order.
Flat(pages) == IF pages = <<>> THEN <<>> ELSE Head(pages) \o Flat(Tail(pages))

Min(a, b) == IF a <= b THEN a ELSE b

\* totalPages = initialResponse.data.totalPages || 1
TotalPages(tp) == IF tp = 0 THEN 1 ELSE tp

\* The pages of the group that starts at page i.
BatchPages(i, totalPages) == {i + j : j \in 0..(Min(apiBatchSize, totalPages - i) - 1)}

\* Every page requested before the first await of the page phase: the loop of
\* lines 70-80 calls axios.get for each page of each group without awaiting.
IssuedPages(totalPages) ==
  UNION {BatchPages(i, totalPages) :
           i \in {k \in 0..(totalPages - 1) : k % apiBatchSize = 0}}

EmptyView == [l \in Listings |-> 0]
ViewOf(B) == [l \in Listings |-> Cardinality({i \in DOMAIN B : B[i] = l})]

HistIds(h) == {r._id : r \in h}

\* HistoricalAuction.exists({ _id: id })
Exists(h, id) == id \in HistIds(h)

\* Mutant of DuplicateKey: the collection has no unique index.
NoUniqueIndex(h, id) == FALSE

\* The unique index on _id rejects a second document with the same _id (code 11000).
DuplicateKey(h, id) == id \in HistIds(h)

\* Mutant of DropCollection: the old documents stay.
DropNothing(v) == v

\* Auction.collection.drop()
DropCollection(v) == [l \in Listings |-> 0]

\* new HistoricalAuction({...}) with first_seen defaulting to Date.now
NewHistorical(auction, t) ==
  [_id |-> auction.uuid, end |-> auction.end,
   starting_bid |-> auction.starting_bid, first_seen |-> t,
   item_name |-> auction.item_name, tier |-> auction.tier, bin |-> auction.bin,
   auctioneer |-> auction.auctioneer]

\* Mutant of DeleteExpired: a run that finds nothing expired empties the store.
DeleteExpiredOrAll(h, t) ==
  IF \E r \in h : r.end <= t THEN {r \in h : ~(r.end <= t)} ELSE {}

\* Mutant of DeleteExpired: the filter is missing.
DeleteAll(h, t) == {}

\* Mutant of DeleteExpired: $lt in place of $lte.
DeleteEarlier(h, t) == {r \in h : ~(r.end < t)}

\* HistoricalAuction.deleteMany({ end: { $lte: now } })
DeleteExpired(h, t) == {r \in h : ~(r.end <= t)}

\* Mutant of Save: save() replaces the document that is there (an upsert).
SaveUpserts(h, auction, t) ==
  [hist |-> {r \in h : r._id # auction.uuid} \cup {NewHistorical(auction, t)},
   counted |-> 1]

\* Mutant of Save: the document is built and counted, and never saved.
SaveNotPersisted(h, auction, t) == [hist |-> h, counted |-> 1]

\* Lines 90-100 for one auction at time t: the store after save() and what is
\* added to newAuctionsCount.
Save(h, auction, t) ==
  IF DuplicateKey(h, auction.uuid)
  THEN [hist |-> h, counted |-> 0]
  ELSE [hist |-> h \cup {NewHistorical(auction, t)}, counted |-> 1]

\* Mutant of Chunk: a chunk is its first record.
ChunkOfOne(B, i) == SubSeq(B, i, i)

\* allAuctions.slice(i, i + mongoBatchSize), 1-based
Chunk(B, i) == SubSeq(B, i, Min(i + mongoBatchSize - 1, Len(B)))

\* The time waited after attempt a failed with error e, before attempt a+1.
WaitAfter(e, a) ==
  (IF e = "429" THEN Min(rateLimitBase * a, rateLimitCap) ELSE 0) + delay * a

\* ------------------------------------------------------------- GET /auctions/search
\* String.prototype.toUpperCase, on the rarities of Rarities.
ToUpperCase(s) == IF s = "rare" THEN "RARE" ELSE s

\* parseInt(s, 10): the set that holds the integer, empty when the result is NaN.
ParseInt(s) == IF s = "1" THEN {1} ELSE IF s = "2" THEN {2} ELSE {}

\* parseInt(skip, 10) || 0
SkipValue(s) == IF ParseInt(s) \subseteq {0} THEN 0 ELSE CHOOSE n \in ParseInt(s) : TRUE

\* Lines 179-183: a condition of the query per parameter that is present (a set
\* with the value, empty when the parameter is absent).
BuildQuery(r) ==
  [item_name |-> IF r.item # <<>> THEN {r.item} ELSE {},
   tier |-> IF r.rarity # "" THEN {ToUpperCase(r.rarity)} ELSE {},
   bin |-> IF r.bin # "" THEN {r.bin = "true"} ELSE {}]

\* $options: 'i'
Lower(ch) == IF ch = "A" THEN "a" ELSE ch

\* The store compiles the $regex: an unbalanced group is rejected.
RegexValid(p) == \A i \in DOMAIN p : p[i] # "("

\* { $regex: p, $options: 'i' } on a name: p matches somewhere in the name, where
\* "." matches any character and any other character matches itself in either case.
RegexMatches(p, name) ==
  \E off \in 0..(Len(name) - Len(p)) :
    \A i \in 1..Len(p) : p[i] = "." \/ Lower(p[i]) = Lower(name[off + i])

QueryMatches(q, l) ==
  /\ \A p \in q.item_name : RegexMatches(p, l.item_name)
  /\ \A t \in q.tier : l.tier = t
  /\ \A b \in q.bin : l.bin = b

\* Auction.find(query): the documents of the view that match.
Found(v, q) == [l \in Listings |-> IF QueryMatches(q, l) THEN v[l] ELSE 0]

Size(b) == Cardinality(UNION {{l} \X (1..b[l]) : l \in Listings})

\* .sort({ starting_bid: 1 }): the documents of b in an order of non-decreasing
\* price; documents of equal price come in any order.
Sorted(b) ==
  {s \in [1..Size(b) -> Listings] :
     /\ \A l \in Listings : Cardinality({i \in DOMAIN s : s[i] = l}) = b[l]
     /\ \A i \in 1..(Len(s) - 1) : s[i].starting_bid <= s[i + 1].starting_bid}

\* .skip(k).limit(searchLimit)
Window(s, k) == SubSeq(s, k + 1, Min(k + searchLimit, Len(s)))

TypeOK ==
  /\ now \in 0..MaxTime
  /\ \A r \in hist : r._id \in {"a", "b"} /\ r.first_seen \in 0..MaxTime
  /\ view \in [Listings -> Nat]
  /\ viewExists \in BOOLEAN
  /\ fetchScheduled \in BOOLEAN
  /\ listening \in BOOLEAN
  /\ pc \in [Calls -> {"idle", "initial", "pages", "exists", "save", "sweep", "drop",
                       "insert", "done", "failed"}]
  /\ caller \in [Calls -> {"none", "listen", "cron"}]
  /\ attempt \in [Calls -> 0..retries]
  /\ lastErr \in [Calls -> Errors \cup {"none"}]
  /\ \A c \in Calls : Len(batch[c]) <= MaxBatch

\* ------------------------------------------------------------- initial state
Init ==
  /\ now = 0
  /\ hist = {}
  /\ view = EmptyView
  /\ viewExists = FALSE
  /\ fetchScheduled = FALSE
  /\ listening = FALSE
  /\ pc = [c \in Calls |-> "idle"]
  /\ caller = [c \in Calls |-> "none"]
  /\ attempt = [c \in Calls |-> 0]
  /\ lastErr = [c \in Calls |-> "none"]
  /\ outstanding = [c \in Calls |-> {}]
  /\ pagesGot = [c \in Calls |-> <<>>]
  /\ batch = [c \in Calls |-> <<>>]
  /\ idx = [c \in Calls |-> 0]
  /\ newAuctionsCount = [c \in Calls |-> 0]
  /\ run = [c \in Calls |-> "none"]
  /\ settled = [c \in Calls |-> FALSE]
  /\ cleaned = FALSE
  /\ request = NoRequest
  /\ response = NoResponse
  /\ backoff = [c \in Calls |-> NoBackoff]

\* ------------------------------------------------------------- history variables
InLoop(c) == pc[c] \in {"exists", "save"}

\* A step of call c. starts: c's dedup loop begins in this step; ends: the loop
\* reaches its end (line 110) in this step.
History(c, B, starts, ends) ==
  LET mine == IF starts
              THEN IF \E d \in Calls : settled[d] /\ batch[d] = B
                   THEN "again" ELSE "first"
              ELSE run[c]
  IN /\ run' = [d \in Calls |->
                  IF d = c THEN (IF ends THEN "none" ELSE mine)
                  ELSE IF hist' = hist THEN run[d] ELSE "none"]
     /\ settled' = [d \in Calls |->
                      IF d = c /\ ends THEN mine # "none"
                      ELSE IF d = c /\ starts THEN FALSE
                      ELSE settled[d] /\ hist' = hist]

\* A step of the timer's sweep.
HistoryTimer ==
  /\ run' = [d \in Calls |-> IF hist' = hist THEN run[d] ELSE "none"]
  /\ settled' = [d \in Calls |-> settled[d] /\ hist' = hist]

\* ------------------------------------------------------------- fetchAuctionsWithRetry
ClearLocals(c) ==
  /\ outstanding' = [outstanding EXCEPT ![c] = {}]
  /\ pagesGot' = [pagesGot EXCEPT ![c] = <<>>]
  /\ idx' = [idx EXCEPT ![c] = 0]
  /\ newAuctionsCount' = [newAuctionsCount EXCEPT ![c] = 0]

\* A call begins: attempt = 1, line 62 sends the initial request.
Begin(c, who) ==
  /\ pc' = [pc EXCEPT ![c] = "initial"]
  /\ caller' = [caller EXCEPT ![c] = who]
  /\ attempt' = [attempt EXCEPT ![c] = 1]
  /\ lastErr' = [lastErr EXCEPT ![c] = "none"]
  /\ ClearLocals(c)
  /\ UNCHANGED batch

\* Mutant of Catch: the rethrow of line 144 is missing, the loop ends and the
\* call returns.
CatchWithoutRethrow(c, e) ==
  /\ lastErr' = [lastErr EXCEPT ![c] = e]
  /\ IF attempt[c] = retries
     THEN /\ pc' = [pc EXCEPT ![c] = "done"]
          /\ UNCHANGED attempt
     ELSE /\ pc' = [pc EXCEPT ![c] = "initial"]
          /\ attempt' = [attempt EXCEPT ![c] = attempt[c] + 1]
  /\ ClearLocals(c)
  /\ run' = [run EXCEPT ![c] = "none"]
  /\ cleaned' = FALSE
  /\ UNCHANGED <<now, store, fetchScheduled, listening, caller, batch, settled>>

\* The catch block of lines 128-146 for an attempt that threw e: after the waits,
\* the last attempt rethrows to the caller, any other starts the next attempt.
Catch(c, e) ==
  /\ lastErr' = [lastErr EXCEPT ![c] = e]
  /\ IF attempt[c] = retries
     THEN /\ pc' = [pc EXCEPT ![c] = "failed"]
          /\ UNCHANGED attempt
     ELSE /\ pc' = [pc EXCEPT ![c] = "initial"]
          /\ attempt' = [attempt EXCEPT ![c] = attempt[c] + 1]
  /\ ClearLocals(c)
  /\ run' = [run EXCEPT ![c] = "none"]
  /\ cleaned' = FALSE
  /\ UNCHANGED <<now, store, fetchScheduled, listening, caller, batch, settled>>

\* Lines 166-174.
scheduleFetch == fetchScheduled' = TRUE

\* Line 127 returns; line 218: the .then of the call made by the listen callback
\* runs scheduleFetch.
Return(c) ==
  /\ pc' = [pc EXCEPT ![c] = "done"]
  /\ attempt' = [attempt EXCEPT ![c] = 0]
  /\ lastErr' = [lastErr EXCEPT ![c] = "none"]
  /\ idx' = [idx EXCEPT ![c] = 0]
  /\ newAuctionsCount' = [newAuctionsCount EXCEPT ![c] = 0]
  /\ IF caller[c] = "listen" THEN scheduleFetch ELSE UNCHANGED fetchScheduled

\* Mutant of InitialResponse: the old auctions are dropped before the pages are
\* fetched.
InitialResponseDropsFirst(c, tp) ==
  /\ UNCHANGED served
  /\ pc[c] = "initial"
  /\ pc' = [pc EXCEPT ![c] = "pages"]
  /\ outstanding' = [outstanding EXCEPT ![c] = IssuedPages(TotalPages(tp))]
  /\ pagesGot' = [pagesGot EXCEPT ![c] = [p \in 1..TotalPages(tp) |-> <<>>]]
  /\ cleaned' = FALSE
  /\ view' = EmptyView
  /\ viewExists' = FALSE
  /\ UNCHANGED <<now, hist, fetchScheduled, listening, caller, attempt, lastErr, batch,
                 idx, newAuctionsCount, run, settled>>

\* Lines 62-80: the initial response arrives with success and announces tp pages;
\* the loop issues the requests of every group.
InitialResponse(c, tp) ==
  /\ UNCHANGED served
  /\ pc[c] = "initial"
  /\ pc' = [pc EXCEPT ![c] = "pages"]
  /\ outstanding' = [outstanding EXCEPT ![c] = IssuedPages(TotalPages(tp))]
  /\ pagesGot' = [pagesGot EXCEPT ![c] = [p \in 1..TotalPages(tp) |-> <<>>]]
  /\ cleaned' = FALSE
  /\ UNCHANGED <<now, store, fetchScheduled, listening, caller, attempt, lastErr, batch,
                 idx, newAuctionsCount, run, settled>>

\* Lines 62-63: the initial request fails (429, timeout or success=false).
InitialFail(c, e) ==
  /\ UNCHANGED served
  /\ pc[c] = "initial"
  /\ e \in FetchErrors
  /\ Catch(c, e)

\* Lines 74-77 and 81-85: page p is answered with success; when it is the last one
\* outstanding, Promise.all resolves, allAuctions is built and the dedup loop begins.
PageResponse(c, p, auctions) ==
  /\ UNCHANGED served
  /\ pc[c] = "pages"
  /\ p \in outstanding[c]
  /\ Len(Flat(pagesGot[c])) + Len(auctions) <= MaxBatch
  /\ cleaned' = FALSE
  /\ UNCHANGED <<now, store, fetchScheduled, listening, caller, attempt, lastErr>>
  /\ LET got == [pagesGot[c] EXCEPT ![p + 1] = auctions]
         left == outstanding[c] \ {p}
     IN IF left # {}
        THEN /\ outstanding' = [outstanding EXCEPT ![c] = left]
             /\ pagesGot' = [pagesGot EXCEPT ![c] = got]
             /\ UNCHANGED <<pc, batch, idx, newAuctionsCount, run, settled>>
        ELSE /\ outstanding' = [outstanding EXCEPT ![c] = {}]
             /\ pagesGot' = [pagesGot EXCEPT ![c] = <<>>]
             /\ batch' = [batch EXCEPT ![c] = Flat(got)]
             /\ idx' = [idx EXCEPT ![c] = 1]
             /\ newAuctionsCount' = [newAuctionsCount EXCEPT ![c] = 0]
             /\ pc' = [pc EXCEPT ![c] = IF Flat(got) = <<>> THEN "sweep" ELSE "exists"]
             /\ History(c, Flat(got), TRUE, Flat(got) = <<>>)

\* Lines 74-75: a page request fails; Promise.all rejects.
PageFail(c, e) ==
  /\ UNCHANGED served
  /\ pc[c] = "pages"
  /\ outstanding[c] # {}
  /\ e \in FetchErrors
  /\ Catch(c, e)

\* Mutant of NextAuction: the loop ends after one auction.
NextAuctionOnlyOne(c) ==
  /\ idx' = [idx EXCEPT ![c] = idx[c] + 1]
  /\ pc' = [pc EXCEPT ![c] = "sweep"]

\* The loop of line 86 moves to the next auction, or ends (line 110).
NextAuction(c) ==
  /\ idx' = [idx EXCEPT ![c] = idx[c] + 1]
  /\ pc' = [pc EXCEPT ![c] = IF idx[c] = Len(batch[c]) THEN "sweep" ELSE "exists"]

\* Line 88: HistoricalAuction.exists({ _id: auction.uuid }) answers.
DedupExists(c) ==
  /\ UNCHANGED served
  /\ pc[c] = "exists"
  /\ UNCHANGED <<now, store, fetchScheduled, listening, caller, attempt, lastErr,
                 outstanding, pagesGot, batch, newAuctionsCount>>
  /\ cleaned' = FALSE
  /\ IF Exists(hist, batch[c][idx[c]].uuid)
     THEN /\ NextAuction(c)
          /\ History(c, batch[c], FALSE, idx[c] = Len(batch[c]))
     ELSE /\ pc' = [pc EXCEPT ![c] = "save"]
          /\ UNCHANGED idx
          /\ History(c, batch[c], FALSE, FALSE)

\* Lines 90-100: save() inserts the document; lines 102-104: the unique _id index
\* rejects it with code 11000 when one is there by now, which is logged and ignored.
DedupSave(c) ==
  /\ UNCHANGED served
  /\ pc[c] = "save"
  /\ LET saved == Save(hist, batch[c][idx[c]], now)
     IN /\ hist' = saved.hist
        /\ newAuctionsCount' =
             [newAuctionsCount EXCEPT ![c] = newAuctionsCount[c] + saved.counted]
  /\ cleaned' = FALSE
  /\ NextAuction(c)
  /\ History(c, batch[c], FALSE, idx[c] = Len(batch[c]))
  /\ UNCHANGED <<now, view, viewExists, fetchScheduled, listening, caller, attempt,
                 lastErr, outstanding, pagesGot, batch>>

\* Mutant of DedupStoreError: the error ends the loop and the attempt goes on.
DedupStoreErrorBreaks(c) ==
  /\ UNCHANGED served
  /\ InLoop(c)
  /\ pc' = [pc EXCEPT ![c] = "sweep"]
  /\ run' = [run EXCEPT ![c] = "none"]
  /\ cleaned' = FALSE
  /\ UNCHANGED <<now, store, fetchScheduled, listening, caller, attempt, lastErr,
                 fetchVars, settled>>

\* Lines 105-107: exists() or save() fails with another error, which is rethrown.
DedupStoreError(c) ==
  /\ UNCHANGED served
  /\ InLoop(c)
  /\ Catch(c, "store")

\* Mutant of CycleSweep: cleanupExpiredAuctions rethrows the store error.
CycleSweepThrows(c, ok) ==
  /\ UNCHANGED served
  /\ pc[c] = "sweep"
  /\ IF ok
     THEN /\ hist' = DeleteExpired(hist, now)
          /\ cleaned' = TRUE
          /\ pc' = [pc EXCEPT ![c] = "drop"]
          /\ History(c, batch[c], FALSE, FALSE)
          /\ UNCHANGED <<now, view, viewExists, fetchScheduled, listening, caller,
                         attempt, lastErr, fetchVars>>
     ELSE Catch(c, "store")

\* Line 112 and lines 151-159: the sweep at the end of the dedup loop. A store
\* error is logged by cleanupExpiredAuctions and not rethrown.
CycleSweep(c, ok) ==
  /\ UNCHANGED served
  /\ pc[c] = "sweep"
  /\ hist' = IF ok THEN DeleteExpired(hist, now) ELSE hist
  /\ cleaned' = ok
  /\ pc' = [pc EXCEPT ![c] = "drop"]
  /\ History(c, batch[c], FALSE, FALSE)
  /\ UNCHANGED <<now, view, viewExists, fetchScheduled, listening, caller, attempt,
                 lastErr, fetchVars>>

\* Lines 115-118: Auction.collection.drop(); NamespaceNotFound is ignored. With an
\* empty batch the chunk loop of line 121 does not run and the call returns.
Drop(c) ==
  /\ UNCHANGED served
  /\ pc[c] = "drop"
  /\ view' = DropCollection(view)
  /\ viewExists' = FALSE
  /\ IF batch[c] = <<>>
     THEN Return(c)
     ELSE /\ pc' = [pc EXCEPT ![c] = "insert"]
          /\ idx' = [idx EXCEPT ![c] = 1]
          /\ UNCHANGED <<fetchScheduled, attempt, lastErr, newAuctionsCount>>
  /\ cleaned' = FALSE
  /\ UNCHANGED <<now, hist, listening, caller, outstanding, pagesGot, batch,
                 run, settled>>

\* Line 116: drop() fails with another error.
DropError(c) ==
  /\ UNCHANGED served
  /\ pc[c] = "drop"
  /\ Catch(c, "store")

\* Lines 121-127: Auction.insertMany(batch, { ordered: false }) of one chunk;
\* after the last chunk the call returns.
InsertChunk(c) ==
  /\ UNCHANGED served
  /\ pc[c] = "insert"
  /\ LET chunk == Chunk(batch[c], idx[c])
     IN view' = [l \in Listings |-> view[l] + ViewOf(chunk)[l]]
  /\ viewExists' = TRUE
  /\ IF idx[c] + mongoBatchSize > Len(batch[c])
     THEN Return(c)
     ELSE /\ idx' = [idx EXCEPT ![c] = idx[c] + mongoBatchSize]
          /\ UNCHANGED <<pc, fetchScheduled, attempt, lastErr, newAuctionsCount>>
  /\ cleaned' = FALSE
  /\ UNCHANGED <<now, hist, listening, caller, outstanding, pagesGot, batch,
                 run, settled>>

\* Line 123: insertMany throws; being unordered, it has written the documents at
\* the positions S of the chunk, any part of it.
InsertError(c, S) ==
  /\ UNCHANGED served
  /\ pc[c] = "insert"
  /\ LET chunk == Chunk(batch[c], idx[c])
     IN /\ S \subseteq DOMAIN chunk
        /\ view' = [l \in Listings |->
                      view[l] + Cardinality({i \in S : chunk[i] = l})]
        /\ viewExists' = (viewExists \/ S # {})
  /\ lastErr' = [lastErr EXCEPT ![c] = "store"]
  /\ IF attempt[c] = retries
     THEN /\ pc' = [pc EXCEPT ![c] = "failed"]
          /\ UNCHANGED attempt
     ELSE /\ pc' = [pc EXCEPT ![c] = "initial"]
          /\ attempt' = [attempt EXCEPT ![c] = attempt[c] + 1]
  /\ ClearLocals(c)
  /\ cleaned' = FALSE
  /\ UNCHANGED <<now, hist, fetchScheduled, listening, caller, batch, run, settled>>

\* ------------------------------------------------------------- timers and startup
\* Lines 214-219: the app.listen callback makes the startup call.
Listen ==
  /\ UNCHANGED served
  /\ ~listening
  /\ listening' = TRUE
  /\ Begin(1, "listen")
  /\ cleaned' = FALSE
  /\ UNCHANGED <<now, store, fetchScheduled, run, settled>>

Free(c) == pc[c] \in {"idle", "done", "failed"}

\* Lines 169-172: a tick of the cron job that scheduleFetch registered.
CronFetch(c) ==
  /\ UNCHANGED served
  /\ fetchScheduled
  /\ Free(c)
  /\ \A d \in Calls : d < c => ~Free(d)
  /\ Begin(c, "cron")
  /\ cleaned' = FALSE
  /\ UNCHANGED <<now, store, fetchScheduled, listening, run, settled>>

\* Line 162: a tick of the cleanup cron job.
TimerSweep(ok) ==
  /\ UNCHANGED served
  /\ hist' = IF ok THEN DeleteExpired(hist, now) ELSE hist
  /\ cleaned' = ok
  /\ HistoryTimer
  /\ UNCHANGED <<now, view, viewExists, fetchScheduled, listening, pc, caller, attempt,
                 lastErr, fetchVars>>

\* Time passes.
Tick ==
  /\ UNCHANGED served
  /\ now < MaxTime
  /\ now' = now + 1
  /\ cleaned' = FALSE
  /\ UNCHANGED <<store, fetchScheduled, listening, pc, caller, attempt, lastErr,
                 fetchVars, run, settled>>

\* Lines 128-145 for attempt number a, not the last one, of call c when the
\* attempt threw e: the time from the throw to the start of attempt a + 1.
AttemptFails(c, e, a) ==
  /\ backoff' = [backoff EXCEPT ![c] = [error |-> e, attempt |-> a,
                                        waited |-> WaitAfter(e, a)]]
  /\ UNCHANGED <<now, store, fetchScheduled, listening, pc, caller, attempt, lastErr,
                 fetchVars, run, settled, cleaned, request, response>>

\* Lines 177-199: the handler of GET /auctions/search answers request r from the
\* view as it is; an error of find is answered with status 500.
Search(r) ==
  /\ request = NoRequest
  /\ request' = r
  /\ LET q == BuildQuery(r)
     IN IF \E p \in q.item_name : ~RegexValid(p)
        THEN response' = [status |-> 500, body |-> <<>>]
        ELSE \E s \in Sorted(Found(view, q)) :
               response' = [status |-> 200, body |-> Window(s, SkipValue(r.skip))]
  /\ UNCHANGED <<now, store, fetchScheduled, listening, pc, caller, attempt, lastErr,
                 fetchVars, run, settled, cleaned, backoff>>

\* The response has been sent; the handler keeps nothing of the request.
Reply ==
  /\ request # NoRequest
  /\ request' = NoRequest
  /\ response' = NoResponse
  /\ UNCHANGED <<now, store, fetchScheduled, listening, pc, caller, attempt, lastErr,
                 fetchVars, run, settled, cleaned, backoff>>

\* ------------------------------------------------------------- specifications
\* The steps of call c when the feed announces a page count of TP and serves pages
\* with a content of CT and requests fail in the ways ER.
CallStep(c, TP, CT, ER) ==
  \/ \E tp \in TP : InitialResponse(c, tp)
  \/ \E e \in ER : InitialFail(c, e)
  \/ \E p \in outstanding[c], auctions \in CT : PageResponse(c, p, auctions)
  \/ \E e \in ER : PageFail(c, e)
  \/ DedupExists(c)
  \/ DedupSave(c)
  \/ DedupStoreError(c)
  \/ \E ok \in BOOLEAN : CycleSweep(c, ok)
  \/ Drop(c)
  \/ DropError(c)
  \/ InsertChunk(c)
  \/ \E S \in SUBSET (1..mongoBatchSize) : InsertError(c, S)

Environment ==
  \/ Listen
  \/ \E ok \in BOOLEAN : TimerSweep(ok)
  \/ Tick

\* One call at a time: the startup call, then the cron calls one after the other.
Next ==
  \/ Environment
  \/ CronFetch(1)
  \/ CallStep(1, MainTotalPages, MainContents, MainErrors)

Spec == Init /\ [][Next]_vars

\* Many pages, little content.
NextPaged ==
  \/ Environment
  \/ CronFetch(1)
  \/ CallStep(1, PagedTotalPages, PagedContents, PagedErrors)

SpecPaged == Init /\ [][NextPaged]_vars

\* Cron calls that overlap: a tick arrives while the call of the tick before runs.
NextOverlap ==
  \/ Environment
  \/ \E c \in Calls : CronFetch(c)
  \/ \E c \in Calls : CallStep(c, OverlapTotalPages, OverlapContents, OverlapErrors)

SpecOverlap == Init /\ [][NextOverlap]_vars

\* Calls that overlap while the feed serves one identifier, now as la and now as
\* la2.
NextRace ==
  \/ Environment
  \/ \E c \in Calls : CronFetch(c)
  \/ \E c \in Calls : CallStep(c, RaceTotalPages, RaceContents, RaceErrors)

SpecRace == Init /\ [][NextRace]_vars

\* One call at a time while the feed serves the same listing, lb, which has
\* ended, in every batch.
NextOnce ==
  \/ Environment
  \/ CronFetch(1)
  \/ CallStep(1, OnceTotalPages, OnceContents, OnceErrors)

SpecOnce == Init /\ [][NextOnce]_vars

\* One call at a time over a small feed: every request is answered or times out
\* (timeout: 30000) and every store operation ends (socketTimeoutMS), so a call
\* that can take a step takes one.
LiveTotalPages == {1}
LiveContents == SeqsUpTo({la, lb}, 1) \cup {<<la, lb, la>>}
LiveErrors == FetchErrors

NextLive ==
  \/ Environment
  \/ CronFetch(1)
  \/ CallStep(1, LiveTotalPages, LiveContents, LiveErrors)

\* Searches at any moment of the cycles of one call at a time, one request
\* after the other. The clock and the cleanup timer, which leave the view alone,
\* stand still.
NextSearch ==
  \/ Listen
  \/ CronFetch(1)
  \/ CallStep(1, SearchTotalPages, SearchContents, SearchErrors)
  \/ \E r \in Requests : Search(r)
  \/ Reply

SpecSearch == Init /\ [][NextSearch]_vars

\* The waits of the catch block, for every error and attempt number up to
\* MaxAttempt (the retries parameter is the caller's to choose).
NextBackoff == \E c \in Calls, e \in Errors, a \in 1..MaxAttempt : AttemptFails(c, e, a)

SpecBackoff == Init /\ [][NextBackoff]_vars

SpecLive ==
  /\ Init
  /\ [][NextLive]_vars
  /\ WF_vars(CallStep(1, LiveTotalPages, LiveContents, LiveErrors))

\* ------------------------------------------------------------- the claims
Range(f) == {f[i] : i \in DOMAIN f}

\* Call c took a step.
Stepped(c) ==
  <<pc[c], attempt[c], outstanding[c], idx[c]>>' # <<pc[c], attempt[c], outstanding[c], idx[c]>>

\* No listing of L with identifier x has ended.
Unexpired(x, L) == \A l \in L : l.uuid = x => l.end > now

C1_UniqueKey == \A r1, r2 \in hist : r1._id = r2._id => r1 = r2

C1_ExactlyOne ==
  (pc[1] = "done" /\ pc[2] = "done") =>
    \A l \in OverlapListings :
      (l \in Range(batch[1]) /\ l \in Range(batch[2]) /\ Unexpired(l.uuid, OverlapListings))
        => Cardinality({r \in hist : r._id = l.uuid}) = 1

C1_RejectionIgnored ==
  \A c \in Calls :
    (pc[c] = "save" /\ DuplicateKey(hist, batch[c][idx[c]].uuid) /\ Stepped(c))
      => \/ pc'[c] \in {"exists", "sweep"} /\ attempt'[c] = attempt[c] /\ hist' = hist
         \/ lastErr'[c] = "store"

\* C1: with two calls of fetchAuctionsWithRetry interleaved in every way, hist
\* never holds two documents with one _id; when both calls are done and their
\* batches share a listing that has not ended, hist holds exactly one document
\* for it; and a save() rejected for its duplicate key lets the call go on to the
\* next auction: the attempt fails there only by another store error.
C1_OneRecordPerIdentifier ==
  /\ []C1_UniqueKey
  /\ []C1_ExactlyOne
  /\ [][C1_RejectionIgnored]_vars

\* Call 2 has inserted the listing and call 1, which found it missing, is about
\* to save it.
C1_Witness ==
  /\ pc[1] = "save"
  /\ DuplicateKey(hist, batch[1][idx[1]].uuid)
  /\ pc[2] \in {"sweep", "drop", "insert"}
  /\ newAuctionsCount[2] = 1
  /\ batch[2] = batch[1]

C2_CountBound ==
  \A c \in Calls :
    /\ newAuctionsCount[c] <= Len(batch[c])
    /\ InLoop(c) => newAuctionsCount[c] <= idx[c] - 1

C2_CountIsInserted ==
  \A c \in Calls :
    (InLoop(c) /\ Stepped(c) /\ pc'[c] \in {"exists", "save", "sweep"})
      => /\ hist \subseteq hist'
         /\ newAuctionsCount'[c] - newAuctionsCount[c] = Cardinality(hist' \ hist)

C2_SecondRunCountsNothing == \A c \in Calls : run[c] = "again" => newAuctionsCount[c] = 0

C2_SecondRunInsertsNothing ==
  \A c \in Calls :
    (run[c] = "again" /\ Stepped(c)) => hist' = hist /\ newAuctionsCount'[c] = 0

\* C2: a run of the dedup loop never counts more new records than its batch has
\* auctions, each step of the loop adds to newAuctionsCount exactly the number of
\* documents it adds to hist, and a run of the loop that begins when a run over
\* the same batch has ended, with hist unchanged since, counts 0 and leaves hist
\* as it is.
C2_DedupBoundedAndIdempotent ==
  /\ []C2_CountBound
  /\ [][C2_CountIsInserted]_vars
  /\ []C2_SecondRunCountsNothing
  /\ [][C2_SecondRunInsertsNothing]_vars

\* A second run over a batch of at least two auctions is at its last auction.
C2_Witness ==
  \E c \in Calls :
    /\ run[c] = "again"
    /\ pc[c] = "exists"
    /\ Len(batch[c]) >= 2
    /\ idx[c] = Len(batch[c])
    /\ HistIds(hist) # {}

C3_NoExpiredLeft == cleaned => \A r \in hist : r.end > now

C3_SweepEffect == cleaned' => hist' = {r \in hist : r.end > now}

\* C3: when cleanupExpiredAuctions completes without a store error at time now,
\* hist is left with exactly the documents whose end is > now, each as it was:
\* every document with end <= now is gone.
C3_SweepRemovesExactlyExpired ==
  /\ []C3_NoExpiredLeft
  /\ [][C3_SweepEffect]_vars

\* The sweep of a call whose batch held la and lb has run: b is gone, a is kept.
C3_Witness ==
  /\ cleaned
  /\ pc[1] = "drop"
  /\ {la, lb} \subseteq Range(batch[1])
  /\ HistIds(hist) = {"a"}

Running(c) == pc[c] \notin {"idle", "done", "failed"}

C4_FetchWritesNothing ==
  \A c \in Calls :
    (pc[c] \in {"initial", "pages"} /\ Stepped(c)) => UNCHANGED <<hist, view, viewExists>>

C4_RetryEndsLikeOneAttempt ==
  \A c \in Calls :
    (attempt[c] = 2 /\ lastErr[c] = "429" /\ pc[c] # "done" /\ pc'[c] = "done")
      => /\ view' = ViewOf(batch[c])
         /\ \A r1, r2 \in hist' : r1._id = r2._id => r1 = r2
         /\ \A l \in Range(batch[c]) :
              Unexpired(l.uuid, Listings) => l.uuid \in HistIds(hist')

\* C4: no step of an attempt that is still fetching (the initial request or the
\* page requests, up to and including the failure of one of them) changes hist or
\* the view; and a call whose attempt 1 failed with HTTP 429 and whose attempt 2
\* succeeds returns with the view holding exactly the batch of attempt 2, one
\* document per identifier in hist, and a document for every listing of the batch
\* that has not ended, as a call does whose only attempt succeeds.
C4_FailedFetchLeavesNoTrace ==
  /\ [][C4_FetchWritesNothing]_vars
  /\ [][C4_RetryEndsLikeOneAttempt]_vars

\* Attempt 1 failed with 429 and attempt 2 is about to insert its last chunk.
C4_Witness ==
  /\ pc[1] = "insert"
  /\ attempt[1] = 2
  /\ lastErr[1] = "429"
  /\ Len(batch[1]) = 3
  /\ idx[1] = 3
  /\ HistIds(hist) = {"a"}

C5_AtMostNAttempts == \A c \in Calls : attempt[c] <= retries

C5_Outcome ==
  \A c \in Calls :
    /\ (pc[c] # "done" /\ pc'[c] = "done") => pc[c] \in {"drop", "insert"}
    /\ (pc[c] = "done" /\ Stepped(c)) => pc'[c] = "initial" /\ attempt'[c] = 1
    /\ (pc[c] # "failed" /\ pc'[c] = "failed")
         => /\ attempt[c] = retries
            /\ lastErr'[c] \in (IF pc[c] \in {"initial", "pages"} THEN FetchErrors
                                ELSE {"store"})
    /\ (Running(c) /\ attempt'[c] # attempt[c] /\ pc'[c] = "initial")
         => attempt[c] < retries /\ attempt'[c] = attempt[c] + 1

C5_ProcessGoesOn ==
  \A c \in Calls :
    pc[c] = "failed" =>
      /\ ENABLED TimerSweep(TRUE)
      /\ fetchScheduled => ENABLED CronFetch(c)

C5_Terminates == \A c \in Calls : Running(c) ~> (pc[c] \in {"done", "failed"})

\* C5: a call makes at most retries attempts; it returns only from an attempt
\* that got through its publish step and makes no attempt after that; it throws
\* only from attempt number retries, with the error of that attempt; every call
\* that has begun ends, returned or thrown; and after a throw the timers still
\* fire.
C5_BoundedRetries ==
  /\ []C5_AtMostNAttempts
  /\ [][C5_Outcome]_vars
  /\ []C5_ProcessGoesOn
  /\ C5_Terminates

\* A call started by the cron tick has thrown the store error of its last
\* attempt.
C5_Witness ==
  /\ pc[1] = "failed"
  /\ caller[1] = "cron"
  /\ attempt[1] = retries
  /\ lastErr[1] = "store"

\* C6: whenever a call has ended in failure, the startup call included, the
\* periodic fetch is registered and its next tick starts a call.
C6_FailureKeepsSchedule ==
  \A c \in Calls : pc[c] = "failed" => fetchScheduled /\ ENABLED CronFetch(c)

\* C7: the page requests issued and not yet answered are never more than
\* apiBatchSize, and they all belong to one group.
C7_BoundedPageRequests ==
  \A c \in Calls :
    /\ Cardinality(outstanding[c]) <= apiBatchSize
    /\ \A p, q \in outstanding[c] : p \div apiBatchSize = q \div apiBatchSize

C8_ViewIsBatch ==
  \A c \in Calls :
    pc[c] = "done" => view = ViewOf(batch[c]) /\ viewExists = (batch[c] # <<>>)

C8_ChunkByChunk ==
  \A c \in Calls :
    pc[c] = "insert" =>
      /\ (idx[c] - 1) % mongoBatchSize = 0
      /\ view = ViewOf(SubSeq(batch[c], 1, idx[c] - 1))

\* C8: with one call at a time, when a call is done the view holds each auction
\* of its batch exactly as often as the batch does and nothing else, whatever it
\* held before; while the call inserts, the view holds the whole chunks of
\* mongoBatchSize inserted so far.
C8_ViewReplaced == C8_ViewIsBatch /\ C8_ChunkByChunk

\* A batch of two chunks has replaced a view that held la2.
C8_Witness ==
  /\ pc[1] = "done"
  /\ batch[1] = <<la, lb, la>>
  /\ \E r \in hist : r.starting_bid = la2.starting_bid
  /\ view[la2] = 0

\* C9: when two calls that overlapped are both done, the view holds exactly the
\* batch of one of them.
C9_ViewIsOneBatch ==
  (pc[1] = "done" /\ pc[2] = "done") => view \in {ViewOf(batch[1]), ViewOf(batch[2])}

C10_ViewHoldsBatch ==
  \A c \in Calls : pc[c] = "done" => \A l \in Range(batch[c]) : view[l] >= 1

C10_SweepKeepsView ==
  (hist' # hist /\ hist' \subseteq hist) => view' = view /\ viewExists' = viewExists

C10_Claimed ==
  \A c \in Calls :
    pc[c] = "done" =>
      /\ \A l \in Range(batch[c]) : l.end > now => l.uuid \in HistIds(hist)
      /\ cleaned => \A l \in Range(batch[c]) : l.end <= now => l.uuid \notin HistIds(hist)

\* The statement of C10 as written: after a call is done over a batch, the view holds every listing
\* of the batch, hist holds a document for each listing of the batch with
\* end > now, after a sweep hist holds no document for a listing of the batch with
\* end <= now, and a sweep's delete leaves the view as it is.
C10_AsClaimed ==
  /\ []C10_ViewHoldsBatch
  /\ []C10_Claimed
  /\ [][C10_SweepKeepsView]_vars

\* Every listing the feed serves under identifier x has ended.
Expired(x, L) == \A l \in L : l.uuid = x => l.end <= now

C10_Amended ==
  \A c \in Calls :
    pc[c] = "done" =>
      /\ \A l \in Range(batch[c]) : Unexpired(l.uuid, Listings) => l.uuid \in HistIds(hist)
      /\ cleaned => \A l \in Range(batch[c]) :
                      /\ Expired(l.uuid, Listings) => l.uuid \notin HistIds(hist)
                      /\ l.end <= now => \A r \in hist : r._id = l.uuid => r.end > now

\* C10: after a call is done over a batch, the view holds every listing
\* of the batch; hist holds a document for each listing of the batch when no
\* listing served under its identifier has ended; after a sweep hist holds no
\* document with end <= now, so none for a listing of the batch when every listing
\* served under its identifier has ended; and a sweep's delete leaves the view as
\* it is.
C10_CycleThenSweep ==
  /\ []C10_ViewHoldsBatch
  /\ []C10_Amended
  /\ [][C10_SweepKeepsView]_vars

\* The call over <<la, lb>> is done and a sweep has just completed: the view
\* holds both, hist holds a and not b.
C10_Witness ==
  /\ pc[1] = "done"
  /\ cleaned
  /\ batch[1] = <<la, lb>>
  /\ view = ViewOf(<<la, lb>>)
  /\ HistIds(hist) = {"a"}

\* The filters as the search is specified: item is a substring of the name,
\* compared without case; the tier is the rarity in upper case; bin is the flag.
SubstringOf(p, name) ==
  \E off \in 0..(Len(name) - Len(p)) :
    \A i \in 1..Len(p) : Lower(p[i]) = Lower(name[off + i])

FilterMatches(r, l) ==
  /\ r.item # <<>> => SubstringOf(r.item, l.item_name)
  /\ r.rarity # "" => l.tier = ToUpperCase(r.rarity)
  /\ r.bin # "" => l.bin = (r.bin = "true")

C11_Answer(v, r, a) ==
  /\ a.status = 200
  /\ Len(a.body) <= searchLimit
  /\ \A i \in DOMAIN a.body : FilterMatches(r, a.body[i])
  /\ \A i \in 1..(Len(a.body) - 1) : a.body[i].starting_bid <= a.body[i + 1].starting_bid
  /\ \E s \in Sorted([l \in Listings |-> IF FilterMatches(r, l) THEN v[l] ELSE 0]) :
       a.body = Window(s, IF r.skip = "" THEN 0 ELSE SkipValue(r.skip))

\* C11: whatever the view holds and whatever item, rarity, bin and skip are, the
\* search answers with at most searchLimit records, all matching the filters, in
\* an order of non-decreasing starting_bid, being the records at positions
\* skip .. skip+searchLimit-1 of the matching records sorted by price; when
\* nothing matches the answer is the empty array and not an error.
C11_SearchContract ==
  [][(request = NoRequest /\ request' \in Requests)
       => C11_Answer(view, request', response')]_vars

\* C12: after attempt a fails with HTTP 429 the time waited before attempt a + 1
\* is min(rateLimitBase * a, rateLimitCap), so never more than rateLimitCap.
C12_RateLimitWait ==
  \A c \in Calls :
    backoff[c].error = "429" =>
      /\ backoff[c].waited = Min(rateLimitBase * backoff[c].attempt, rateLimitCap)
      /\ backoff[c].waited <= rateLimitCap

\* C13: after a timeout (ECONNABORTED) the wait is the same for every attempt
\* number; after an error that is neither a timeout nor HTTP 429 the wait is
\* delay * attempt.
C13_TimeoutWaitIsFixed ==
  \A c, d \in Calls :
    /\ (backoff[c].error = "ECONNABORTED" /\ backoff[d].error = "ECONNABORTED")
         => backoff[c].waited = backoff[d].waited
    /\ backoff[c].error \in {"api", "store"}
         => backoff[c].waited = delay * backoff[c].attempt

C14_TwiceIsOnce ==
  DeleteExpired(DeleteExpired(hist, now), now) = DeleteExpired(hist, now)

C14_SecondRunDeletesNothing == (cleaned /\ cleaned') => hist' = hist

\* C14: over any store and at any time, sweeping the outcome of a sweep again
\* with the same now gives that outcome; and a sweep that runs right after a sweep
\* completed, with nothing written and no time passed in between, leaves hist as
\* it is.
C14_SweepIdempotent == []C14_TwiceIsOnce /\ [][C14_SecondRunDeletesNothing]_vars

\* A sweep has just deleted the document of b and kept the one of a; the next
\* step can be another sweep.
C14_Witness ==
  /\ cleaned
  /\ pc[1] = "drop"
  /\ batch[1] = <<lb, la>>
  /\ HistIds(hist) = {"a"}

\* The stages of an attempt, in their order.
Stage(p) ==
  CASE p \in {"initial", "pages"} -> 1   \* Fetching
    [] p \in {"exists", "save"} -> 2     \* Deduplicating
    [] p = "sweep" -> 3                  \* Sweeping
    [] p \in {"drop", "insert"} -> 4     \* Publishing
    [] p = "done" -> 5
    [] OTHER -> 0

\* The step ends an attempt of c in failure: the call throws or starts its next
\* attempt.
Fails(c) == Running(c) /\ (pc'[c] = "failed" \/ attempt'[c] = attempt[c] + 1)

C15_Order ==
  \A c \in Calls :
    /\ (Running(c) /\ Stepped(c) /\ ~Fails(c)) => Stage(pc'[c]) >= Stage(pc[c])
    /\ Fails(c) => Stage(pc[c]) \in {1, 2, 4}
    /\ (Stage(pc'[c]) = 3 /\ Stage(pc[c]) # 3)
         => \/ pc[c] = "pages" /\ outstanding'[c] = {} /\ batch'[c] = <<>>
            \/ Stage(pc[c]) = 2 /\ idx[c] = Len(batch[c])
    /\ (Stage(pc'[c]) = 2 /\ Stage(pc[c]) # 2) => pc[c] = "pages" /\ outstanding'[c] = {}
    /\ (pc'[c] = "drop" /\ pc[c] # "drop") => pc[c] = "sweep"
    /\ (pc'[c] = "done" /\ pc[c] # "done") => Stage(pc[c]) = 4

C15_WritesInStage ==
  /\ ~(hist' \subseteq hist) => \E c \in Calls : pc[c] = "save" /\ outstanding[c] = {}
  /\ view' # view => \E c \in Calls : Stage(pc[c]) = 4

\* C15: within an attempt the stage never goes back; the dedup loop begins when
\* the last page has arrived, the sweep when the last record of the batch has
\* been deduplicated (or the batch is empty), the drop when the sweep has
\* returned, and the call is done from Publishing; an attempt fails from
\* Fetching, Deduplicating or Publishing only; hist receives documents only in
\* Deduplicating, after every page has arrived, and the view changes only in
\* Publishing.
C15_StagesInOrder == [][C15_Order]_vars /\ [][C15_WritesInStage]_vars

\* A call started by the cron tick has gone through every stage over a batch of
\* two records and is done.
C15_Witness ==
  /\ pc[1] = "done"
  /\ caller[1] = "cron"
  /\ batch[1] = <<la2, lb>>
  /\ view = ViewOf(<<la2, lb>>)

\* The views that hold the first k whole chunks of B, for every k: none of B,
\* ..., all of B.
LeadingChunks(B) ==
  {ViewOf(SubSeq(B, 1, Min(k * mongoBatchSize, Len(B)))) : k \in 0..Len(B)}

\* What the view can become in a step: the timers and the stages before
\* Publishing leave it as it is, the drop empties it or (failing) leaves it, and
\* insertMany makes it a union of whole leading chunks of the batch.
C16_StepsClaimed ==
  /\ view' # view => \E c \in Calls : Stepped(c)
  /\ \A c \in Calls :
       Stepped(c) =>
         CASE pc[c] = "insert" -> view' \in LeadingChunks(batch[c])
           [] pc[c] = "drop" -> view' \in {view, EmptyView}
           [] OTHER -> view' = view

C16_Completes ==
  \A c \in Calls :
    pc[c] = "drop" ~> \/ pc[c] = "done" /\ view = ViewOf(batch[c])
                      \/ pc[c] \in {"initial", "failed"} /\ lastErr[c] = "store"

\* The statement of C16 as written: in a cycle that no other overlaps the view
\* is the old batch until the drop, then empty, then a union of whole leading
\* chunks of the new batch, in every reachable state; and without a store error
\* it ends as the whole new batch.
C16_AsClaimed == [][C16_StepsClaimed]_vars /\ C16_Completes

C16_Steps ==
  /\ view' # view => \E c \in Calls : Stepped(c)
  /\ \A c \in Calls :
       Stepped(c) =>
         CASE pc[c] = "insert" /\ ~Fails(c) -> view' \in LeadingChunks(batch[c])
           [] pc[c] = "insert" /\ Fails(c) ->
                \A l \in Listings :
                  /\ view[l] <= view'[l]
                  /\ view'[l] <= view[l] + ViewOf(Chunk(batch[c], idx[c]))[l]
           [] pc[c] = "drop" -> view' \in {view, EmptyView}
           [] OTHER -> view' = view

\* C16: in a cycle that no other overlaps the view stays as it was until the
\* drop, is then empty, and is then a union of whole leading chunks of the new
\* batch for as long as no insertMany fails; an insertMany that fails leaves the
\* chunks before it and any part of its own chunk, and the view stays so until
\* the next drop; it never holds old and new records together; and from the drop
\* on, the call either meets a store error or ends with the view equal to the
\* whole new batch.
C16_SwapStates == [][C16_Steps]_vars /\ C16_Completes

\* The first of two chunks has been inserted: the view holds la and lb, the
\* third record is to come.
C16_Witness ==
  /\ pc[1] = "insert"
  /\ attempt[1] = 1
  /\ batch[1] = <<la, lb, la>>
  /\ idx[1] = 3
  /\ view = ViewOf(<<la, lb>>)

\* C17: a failure to insert a record of a chunk stops neither the chunk loop nor
\* the attempt: every step of the chunk loop leaves the call in the loop, at the
\* next chunk, or done after the last chunk, with nothing taken from the view.
C17_InsertFailureBlocksNothing ==
  [][\A c \in Calls :
       (pc[c] = "insert" /\ Stepped(c)) =>
         /\ \A l \in Listings : view'[l] >= view[l]
         /\ \/ pc'[c] = "insert" /\ idx'[c] = idx[c] + mongoBatchSize
            \/ pc'[c] = "done" /\ idx[c] + mongoBatchSize > Len(batch[c])]_vars

\* C18: a store error in Deduplicating or Publishing ends the cycle in Failed:
\* the call makes no further request to the feed, and the timers stay enabled.
C18_StoreErrorEndsCycle ==
  /\ [][\A c \in Calls : (Stage(pc[c]) \in {2, 4} /\ Fails(c)) => pc'[c] = "failed"]_vars
  /\ [](\A c \in Calls :
         (pc[c] = "failed" /\ lastErr[c] = "store") =>
           /\ ENABLED TimerSweep(TRUE)
           /\ fetchScheduled => ENABLED CronFetch(c))

\* A step of c from save() that is not the loop's move to the next auction.
SaveThrows(c) ==
  /\ pc[c] = "save"
  /\ Stepped(c)
  /\ ~(idx'[c] = idx[c] + 1 /\ pc'[c] \in {"exists", "sweep"})

\* C19: when save() of the i-th record throws an error that is not a duplicate
\* key, the attempt ends there, thrown to the caller from the last attempt and
\* followed by the next attempt otherwise: no later record is processed, neither
\* the sweep nor the publish of the attempt runs, hist keeps every document it
\* holds, those saved for the records before i included, and the view is not
\* touched.
C19_SaveErrorAbortsAttempt ==
  [][\A c \in Calls :
       SaveThrows(c) =>
         /\ lastErr'[c] = "store"
         /\ \/ pc'[c] = "failed" /\ attempt[c] = retries
            \/ pc'[c] = "initial" /\ attempt'[c] = attempt[c] + 1
         /\ idx'[c] = 0
         /\ UNCHANGED <<hist, view, viewExists>>]_vars

\* The startup call saved lb, the first record of <<lb, la>>, and the save of la
\* threw: attempt 2 begins with the document of b in hist and none of a.
C19_Witness ==
  /\ caller[1] = "listen"
  /\ pc[1] = "initial"
  /\ attempt[1] = 2
  /\ lastErr[1] = "store"
  /\ batch[1] = <<lb, la>>
  /\ HistIds(hist) = {"b"}
  /\ ~viewExists

C20_SweepNeverThrows ==
  \A c \in Calls :
    (pc[c] = "sweep" /\ Stepped(c)) =>
      /\ pc'[c] = "drop"
      /\ attempt'[c] = attempt[c]
      /\ (cleaned' \/ hist' = hist)

C20_TimersGoOn ==
  /\ ENABLED TimerSweep(TRUE)
  /\ \A c \in Calls : pc[c] = "sweep" => ENABLED CycleSweep(c, FALSE)

C21_DedupKeepsRecord ==
  \A c \in Calls :
    (InLoop(c) /\ Stepped(c) /\ ~Fails(c) /\ Exists(hist, batch[c][idx[c]].uuid))
      => hist' = hist /\ idx'[c] = idx[c] + 1

C21_OnlySweepRemoves ==
  \A r \in hist :
    \/ r \in hist'
    \/ /\ \A r2 \in hist' : r2._id # r._id
       /\ r.end <= now
       /\ cleaned'

\* C21: a step of the dedup loop on a listing whose identifier has a document
\* in hist leaves hist as it is and moves on, whatever the fields of the listing;
\* and in every step every document of hist either stays, equal in every field
\* (name, price, tier, bin, end, seller, first_seen), or is gone because a sweep
\* deleted it, having ended.
C21_FirstWriteWins == [][C21_DedupKeepsRecord]_vars /\ [][C21_OnlySweepRemoves]_vars

\* The document of a was saved from la2; a call has since met la, the same
\* identifier with another end and price, and has finished its dedup loop.
C21_Witness ==
  /\ pc[1] = "sweep"
  /\ batch[1] = <<la>>
  /\ hist = {NewHistorical(la2, 0)}

\* C22: a document is created once per identifier, in the first cycle whose
\* batch holds the identifier, and not again after the sweep has deleted it. The
\* feed of SpecOnce serves lb in every batch, and fetchScheduled holds once the
\* startup call has returned, a cycle whose batch held b: from then on no step
\* adds a document to hist.
C22_CreatedOnce ==
  [][\A x \in {l.uuid : l \in Listings} :
       (fetchScheduled /\ x \notin HistIds(hist)) => x \notin HistIds(hist')]_vars

====
